---- MODULE Spec2Model ----
(***************************************************************************)
(* Model of the command-interpretation pipeline of G1_voice_control:       *)
(*   schema/command_schema.py   RobotCommand and its construction rules    *)
(*   parser/regex_fallback.py   RegexFallbackParser                        *)
(*   pipeline/fallback.py       CommandValidator, FallbackManager          *)
(*   pipeline/pipeline.py       LanguageControlPipeline.process_text       *)
(*                                                                         *)
(* Units.  A confidence or threshold is an integer number of thousandths   *)
(* (0.7 is 700), value_mm an integer number of tenths of a millimetre      *)
(* (4.0 is 40).  An Optional[float] is a sequence: <<>> is None, <<v>> is  *)
(* the value v.  A text is the sequence of its space-separated tokens; the *)
(* Python string is the tokens joined by single spaces.                    *)
(***************************************************************************)
EXTENDS Integers, Sequences, FiniteSets, TLC

VARIABLES
    pc,         \* position of the call being modelled
    text,       \* the utterance handed to the call
    threshold,  \* CommandValidator.confidence_threshold
    regexKind,  \* which regex_parser object the FallbackManager was given
    semOut,     \* what llm_parser.parse did in this call (history)
    cmd,        \* the command produced (or the parser's return value)
    source,     \* provenance tag returned by parse_with_fallback
    valid,      \* first component of validate's result
    message,    \* second component of validate's result
    trace,      \* tiers invoked so far in this call, in order
    args,       \* the arguments a RobotCommand is being constructed from
    built,      \* the command as construction left it
    calls,      \* per caller: the locals of its process_text call in flight
    api         \* what the chat-completion request of LLMCommandParser did

vars == <<pc, text, threshold, regexKind, semOut, cmd, source, valid, message, trace,
          args, built, calls, api>>

(***************************************************************************)
(* Bounds                                                                  *)
(***************************************************************************)
MaxWords == 3       \* longest utterance given to the regex parser alone
MaxPipeWords == 2   \* longest utterance given to the whole pipeline
NumCallers == 2     \* threads calling process_text on one pipeline object

(***************************************************************************)
(* schema/command_schema.py                                                *)
(***************************************************************************)
None == "None"      \* Python None in an Optional[Magnitude] position
UNSET == "UNSET"    \* keyword argument not supplied by the caller

STOP == "STOP"
Action == {"MOVE_FORWARD", "RETRACT", "MOVE_LEFT", "MOVE_RIGHT", "MOVE_UP",
           "MOVE_DOWN", "ROTATE_LEFT", "ROTATE_RIGHT", STOP}

Magnitude == {"SMALL", "MID", "BIG"}

MAGNITUDE_MM == [m \in Magnitude |->
                   CASE m = "SMALL" -> 20
                     [] m = "MID" -> 40
                     [] m = "BIG" -> 60]

\* Result of a construction that pydantic rejects.
ValidationError == [action |-> "ValidationError"]

\* RobotCommand with an out-of-range confidence clamped into [0, 1] instead
\* of rejected.
RobotCommandClamped(action, magnitude, frame, confidence, value_mm, raw_text) ==
    LET mag0 == IF magnitude = UNSET THEN "MID" ELSE magnitude
        frame0 == IF frame = UNSET THEN "CAMERA" ELSE frame
        conf0 == IF confidence < 0 THEN 0
                 ELSE IF confidence > 1000 THEN 1000 ELSE confidence
    IN  IF action \notin Action \/ mag0 \notin Magnitude \cup {None}
        THEN ValidationError
        ELSE IF action = STOP
        THEN [action |-> action, magnitude |-> None, frame |-> frame0,
              confidence |-> conf0, value_mm |-> <<>>, raw_text |-> raw_text]
        ELSE IF mag0 # None /\ value_mm = <<>>
        THEN [action |-> action, magnitude |-> mag0, frame |-> frame0,
              confidence |-> conf0, value_mm |-> <<MAGNITUDE_MM[mag0]>>,
              raw_text |-> raw_text]
        ELSE [action |-> action, magnitude |-> mag0, frame |-> frame0,
              confidence |-> conf0, value_mm |-> value_mm, raw_text |-> raw_text]

\* RobotCommand without the STOP branch of the "after" validator.
RobotCommandStopNotCleared(action, magnitude, frame, confidence, value_mm, raw_text) ==
    LET mag0 == IF magnitude = UNSET THEN "MID" ELSE magnitude
        frame0 == IF frame = UNSET THEN "CAMERA" ELSE frame
    IN  IF \/ action \notin Action
           \/ mag0 \notin Magnitude \cup {None}
           \/ confidence < 0
           \/ confidence > 1000
        THEN ValidationError
        ELSE IF mag0 # None /\ value_mm = <<>>
        THEN [action |-> action, magnitude |-> mag0, frame |-> frame0,
              confidence |-> confidence, value_mm |-> <<MAGNITUDE_MM[mag0]>>,
              raw_text |-> raw_text]
        ELSE [action |-> action, magnitude |-> mag0, frame |-> frame0,
              confidence |-> confidence, value_mm |-> value_mm, raw_text |-> raw_text]

\* RobotCommand with value_mm always taken from the table, a supplied value
\* being overwritten.
RobotCommandAlwaysLookup(action, magnitude, frame, confidence, value_mm, raw_text) ==
    LET mag0 == IF magnitude = UNSET THEN "MID" ELSE magnitude
        frame0 == IF frame = UNSET THEN "CAMERA" ELSE frame
    IN  IF \/ action \notin Action
           \/ mag0 \notin Magnitude \cup {None}
           \/ confidence < 0
           \/ confidence > 1000
        THEN ValidationError
        ELSE IF action = STOP
        THEN [action |-> action, magnitude |-> None, frame |-> frame0,
              confidence |-> confidence, value_mm |-> <<>>, raw_text |-> raw_text]
        ELSE IF mag0 # None
        THEN [action |-> action, magnitude |-> mag0, frame |-> frame0,
              confidence |-> confidence, value_mm |-> <<MAGNITUDE_MM[mag0]>>,
              raw_text |-> raw_text]
        ELSE [action |-> action, magnitude |-> mag0, frame |-> frame0,
              confidence |-> confidence, value_mm |-> value_mm, raw_text |-> raw_text]

\* RobotCommand(...): field validation, defaults, then the "after" validator.
RobotCommand(action, magnitude, frame, confidence, value_mm, raw_text) ==
    LET mag0 == IF magnitude = UNSET THEN "MID" ELSE magnitude
        frame0 == IF frame = UNSET THEN "CAMERA" ELSE frame
    IN  IF \/ action \notin Action
           \/ mag0 \notin Magnitude \cup {None}
           \/ confidence < 0
           \/ confidence > 1000
        THEN ValidationError
        ELSE IF action = STOP
        THEN [action |-> action, magnitude |-> None, frame |-> frame0,
              confidence |-> confidence, value_mm |-> <<>>, raw_text |-> raw_text]
        ELSE IF mag0 # None /\ value_mm = <<>>
        THEN [action |-> action, magnitude |-> mag0, frame |-> frame0,
              confidence |-> confidence, value_mm |-> <<MAGNITUDE_MM[mag0]>>,
              raw_text |-> raw_text]
        ELSE [action |-> action, magnitude |-> mag0, frame |-> frame0,
              confidence |-> confidence, value_mm |-> value_mm, raw_text |-> raw_text]

(***************************************************************************)
(* pipeline/fallback.py : CommandValidator                                 *)
(***************************************************************************)
\* Thousandths whose last digit is 5 and whose binary double lies above the
\* decimal value, so that ":.2f" rounds them up (0.005 -> "0.01"); the other
\* such values lie below or are exact ties rounded to even (0.125 -> "0.12").
TieRoundsUp ==
    {5, 25, 35, 55, 65, 85, 95, 115, 135, 165, 195, 225, 255, 265, 275, 315,
     325, 335, 375, 385, 395, 405, 445, 455, 465, 505, 515, 525, 535, 545,
     555, 635, 645, 655, 665, 675, 685, 755, 765, 775, 785, 795, 805, 875,
     885, 895, 905, 915, 925, 935}

Digit(d) == <<"0", "1", "2", "3", "4", "5", "6", "7", "8", "9">>[d + 1]

\* f"{x:.2f}" for x = m/1000, 0 <= m <= 1000.
Fmt2(m) ==
    LET q == m \div 10
        r == m % 10
        h == IF r > 5 \/ (r = 5 /\ m \in TieRoundsUp) THEN q + 1 ELSE q
    IN  Digit(h \div 100) \o "." \o Digit((h \div 10) % 10) \o Digit(h % 10)

\* validate with the STOP bypass granted only to a STOP that carries some
\* confidence.
validateStopNeedsConfidence(command, confidence_threshold) ==
    IF command.action = STOP /\ command.confidence > 0
    THEN <<TRUE, "ok">>
    ELSE IF command.confidence < confidence_threshold
    THEN <<FALSE, "confidence " \o Fmt2(command.confidence)
                   \o " < " \o Fmt2(confidence_threshold)>>
    ELSE <<TRUE, "ok">>

\* validate with the confidence test placed before the STOP test.
validateThresholdFirst(command, confidence_threshold) ==
    IF command.confidence < confidence_threshold
    THEN <<FALSE, "confidence " \o Fmt2(command.confidence)
                   \o " < " \o Fmt2(confidence_threshold)>>
    ELSE IF command.action = STOP
    THEN <<TRUE, "ok">>
    ELSE <<TRUE, "ok">>

\* validate with "<=" in place of "<".
validateStrict(command, confidence_threshold) ==
    IF command.action = STOP
    THEN <<TRUE, "ok">>
    ELSE IF command.confidence <= confidence_threshold
    THEN <<FALSE, "confidence " \o Fmt2(command.confidence)
                   \o " < " \o Fmt2(confidence_threshold)>>
    ELSE <<TRUE, "ok">>

\* validate with the confidence compared against the 0.5 bar of the
\* FallbackManager instead of the validator's own threshold.
validateFallbackBar(command, confidence_threshold) ==
    IF command.action = STOP
    THEN <<TRUE, "ok">>
    ELSE IF command.confidence < 500
    THEN <<FALSE, "confidence " \o Fmt2(command.confidence)
                   \o " < " \o Fmt2(500)>>
    ELSE <<TRUE, "ok">>

\* CommandValidator.validate(command) with self.confidence_threshold.
validate(command, confidence_threshold) ==
    IF command.action = STOP
    THEN <<TRUE, "ok">>
    ELSE IF command.confidence < confidence_threshold
    THEN <<FALSE, "confidence " \o Fmt2(command.confidence)
                   \o " < " \o Fmt2(confidence_threshold)>>
    ELSE <<TRUE, "ok">>

(***************************************************************************)
(* parser/regex_fallback.py : RegexFallbackParser                          *)
(***************************************************************************)
\* Tokens an utterance is made of in this model.  "Hold" has an upper-case
\* letter, "don't" and "counter-clockwise" contain a non-word character,
\* "stopped" contains a cue without being one, "going" is a filler.
Vocabulary == {"stop", "Hold", "don't", "move", "stopped", "going",
               "turn", "left", "right", "counter-clockwise", "clockwise",
               "counter", "up", "retract", "a", "little", "nudge", "way"}

\* Tokens of the utterances given to the whole pipeline.
PipeVocabulary == {"stop", "left", "retract", "way", "going"}

TextsOver(V, n) == UNION {[1..k -> V] : k \in 0..n}

Texts == TextsOver(Vocabulary, MaxWords)

PipeTexts == TextsOver(PipeVocabulary, MaxPipeWords)

\* str.lower() on one token.
Lower(tok) ==
    CASE tok = "Hold" -> "hold"
      [] OTHER -> tok

\* A lower-cased token cut into its maximal runs of word characters (\w+)
\* and the non-word characters between them.
Pieces(tok) ==
    CASE tok = "don't" -> <<"don", "'", "t">>
      [] tok = "counter-clockwise" -> <<"counter", "-", "clockwise">>
      [] OTHER -> <<tok>>

\* text.lower() as the sequence of its word runs and separators.
RECURSIVE LowerItems(_)
LowerItems(t) ==
    IF t = <<>> THEN <<>>
    ELSE IF Len(t) = 1 THEN Pieces(Lower(t[1]))
    ELSE Pieces(Lower(t[1])) \o <<" ">> \o LowerItems(Tail(t))

\* re.search of \b(w1|w2|...)\b : some whole word run is one of W.
HasWord(s, W) == \E i \in DOMAIN s : s[i] \in W

\* re.search of \b(a\s+b)\b for a in A : word a, white space, word b.
HasPair(s, A, b) ==
    \E i \in 1..(Len(s) - 2) : s[i] \in A /\ s[i + 1] = " " /\ s[i + 2] = b

CONFIDENCE == 600

\* \b(stop|halt|freeze|hold|don'?t\s+move)\b
STOP_RE(s) ==
    \/ HasWord(s, {"stop", "halt", "freeze", "hold"})
    \/ HasPair(s, {"dont"}, "move")
    \/ \E i \in 1..(Len(s) - 4) :
          /\ s[i] = "don" /\ s[i + 1] = "'" /\ s[i + 2] = "t"
          /\ s[i + 3] = " " /\ s[i + 4] = "move"

\* \b(rotate\s+left|twist\s+left|turn\s+left|counter[- ]?clockwise)\b
ROTATE_LEFT_RE(s) ==
    \/ HasPair(s, {"rotate", "twist", "turn"}, "left")
    \/ HasWord(s, {"counterclockwise"})
    \/ \E i \in 1..(Len(s) - 2) :
          s[i] = "counter" /\ s[i + 1] \in {"-", " "} /\ s[i + 2] = "clockwise"

\* \b(rotate\s+right|twist\s+right|turn\s+right|clockwise)\b
ROTATE_RIGHT_RE(s) ==
    \/ HasPair(s, {"rotate", "twist", "turn"}, "right")
    \/ HasWord(s, {"clockwise"})

DIRECTION_PATTERNS ==
    << [words |-> {"up", "raise", "higher"}, action |-> "MOVE_UP"],
       [words |-> {"down", "lower"}, action |-> "MOVE_DOWN"],
       [words |-> {"left"}, action |-> "MOVE_LEFT"],
       [words |-> {"right"}, action |-> "MOVE_RIGHT"],
       [words |-> {"forward", "advance", "push", "deeper"}, action |-> "MOVE_FORWARD"],
       [words |-> {"back", "retract", "pull", "withdraw"}, action |-> "RETRACT"] >>

\* \b(a\s+little|slightly|tiny|nudge|bit|smidge)\b
SMALL_RE(s) ==
    \/ HasPair(s, {"a"}, "little")
    \/ HasWord(s, {"slightly", "tiny", "nudge", "bit", "smidge"})

\* \b(a\s+lot|big|far|much|significantly|way)\b
BIG_RE(s) ==
    \/ HasPair(s, {"a"}, "lot")
    \/ HasWord(s, {"big", "far", "much", "significantly", "way"})

\* _get_magnitude with the big cues tested before the small ones.
get_magnitudeBigFirst(lower_text) ==
    IF BIG_RE(lower_text) THEN "BIG"
    ELSE IF SMALL_RE(lower_text) THEN "SMALL"
    ELSE "MID"

get_magnitude(lower_text) ==
    IF SMALL_RE(lower_text) THEN "SMALL"
    ELSE IF BIG_RE(lower_text) THEN "BIG"
    ELSE "MID"

\* What parse returns when no pattern matches (Python None).
NoCommand == [action |-> "NoCommand"]

\* parse with the rotation tier tried after the direction tier.
parseRotationLast(t) ==
    LET lower == LowerItems(t)
        hits == {i \in DOMAIN DIRECTION_PATTERNS :
                    HasWord(lower, DIRECTION_PATTERNS[i].words)}
        first == CHOOSE i \in hits : \A j \in hits : i <= j
    IN  IF STOP_RE(lower)
        THEN RobotCommand(STOP, None, UNSET, CONFIDENCE, <<>>, t)
        ELSE IF hits # {}
        THEN RobotCommand(DIRECTION_PATTERNS[first].action, get_magnitude(lower),
                          UNSET, CONFIDENCE, <<>>, t)
        ELSE IF ROTATE_LEFT_RE(lower)
        THEN RobotCommand("ROTATE_LEFT", get_magnitude(lower), UNSET, CONFIDENCE, <<>>, t)
        ELSE IF ROTATE_RIGHT_RE(lower)
        THEN RobotCommand("ROTATE_RIGHT", get_magnitude(lower), UNSET, CONFIDENCE, <<>>, t)
        ELSE NoCommand

\* parse with the direction decided by the cue that stands first in the text
\* instead of the first family of the list.
parseFirstInText(t) ==
    LET lower == LowerItems(t)
        hits == {i \in DOMAIN DIRECTION_PATTERNS :
                    HasWord(lower, DIRECTION_PATTERNS[i].words)}
        pos(i) == CHOOSE k \in DOMAIN lower :
                     /\ lower[k] \in DIRECTION_PATTERNS[i].words
                     /\ \A j \in DOMAIN lower :
                           lower[j] \in DIRECTION_PATTERNS[i].words => k <= j
        first == CHOOSE i \in hits : \A j \in hits : pos(i) <= pos(j)
    IN  IF STOP_RE(lower)
        THEN RobotCommand(STOP, None, UNSET, CONFIDENCE, <<>>, t)
        ELSE IF ROTATE_LEFT_RE(lower)
        THEN RobotCommand("ROTATE_LEFT", get_magnitude(lower), UNSET, CONFIDENCE, <<>>, t)
        ELSE IF ROTATE_RIGHT_RE(lower)
        THEN RobotCommand("ROTATE_RIGHT", get_magnitude(lower), UNSET, CONFIDENCE, <<>>, t)
        ELSE IF hits # {}
        THEN RobotCommand(DIRECTION_PATTERNS[first].action, get_magnitude(lower),
                          UNSET, CONFIDENCE, <<>>, t)
        ELSE NoCommand

\* parse with the STOP command built at full confidence, as create_stop does.
parseStopFullConfidence(t) ==
    LET lower == LowerItems(t)
        hits == {i \in DOMAIN DIRECTION_PATTERNS :
                    HasWord(lower, DIRECTION_PATTERNS[i].words)}
        first == CHOOSE i \in hits : \A j \in hits : i <= j
    IN  IF STOP_RE(lower)
        THEN RobotCommand(STOP, None, UNSET, 1000, <<>>, t)
        ELSE IF ROTATE_LEFT_RE(lower)
        THEN RobotCommand("ROTATE_LEFT", get_magnitude(lower), UNSET, CONFIDENCE, <<>>, t)
        ELSE IF ROTATE_RIGHT_RE(lower)
        THEN RobotCommand("ROTATE_RIGHT", get_magnitude(lower), UNSET, CONFIDENCE, <<>>, t)
        ELSE IF hits # {}
        THEN RobotCommand(DIRECTION_PATTERNS[first].action, get_magnitude(lower),
                          UNSET, CONFIDENCE, <<>>, t)
        ELSE NoCommand

\* parse with the direction loop stopping one family short of the list, so the
\* retract family is never tried.
parseShortLoop(t) ==
    LET lower == LowerItems(t)
        hits == {i \in 1..(Len(DIRECTION_PATTERNS) - 1) :
                    HasWord(lower, DIRECTION_PATTERNS[i].words)}
        first == CHOOSE i \in hits : \A j \in hits : i <= j
    IN  IF STOP_RE(lower)
        THEN RobotCommand(STOP, None, UNSET, CONFIDENCE, <<>>, t)
        ELSE IF ROTATE_LEFT_RE(lower)
        THEN RobotCommand("ROTATE_LEFT", get_magnitude(lower), UNSET, CONFIDENCE, <<>>, t)
        ELSE IF ROTATE_RIGHT_RE(lower)
        THEN RobotCommand("ROTATE_RIGHT", get_magnitude(lower), UNSET, CONFIDENCE, <<>>, t)
        ELSE IF hits # {}
        THEN RobotCommand(DIRECTION_PATTERNS[first].action, get_magnitude(lower),
                          UNSET, CONFIDENCE, <<>>, t)
        ELSE NoCommand

\* parse with the direction tier tried before the stop and rotation tiers.
parseDirectionFirst(t) ==
    LET lower == LowerItems(t)
        hits == {i \in DOMAIN DIRECTION_PATTERNS :
                    HasWord(lower, DIRECTION_PATTERNS[i].words)}
        first == CHOOSE i \in hits : \A j \in hits : i <= j
    IN  IF hits # {}
        THEN RobotCommand(DIRECTION_PATTERNS[first].action, get_magnitude(lower),
                          UNSET, CONFIDENCE, <<>>, t)
        ELSE IF STOP_RE(lower)
        THEN RobotCommand(STOP, None, UNSET, CONFIDENCE, <<>>, t)
        ELSE IF ROTATE_LEFT_RE(lower)
        THEN RobotCommand("ROTATE_LEFT", get_magnitude(lower), UNSET, CONFIDENCE, <<>>, t)
        ELSE IF ROTATE_RIGHT_RE(lower)
        THEN RobotCommand("ROTATE_RIGHT", get_magnitude(lower), UNSET, CONFIDENCE, <<>>, t)
        ELSE NoCommand

\* RegexFallbackParser.parse(text)
parse(t) ==
    LET lower == LowerItems(t)
        hits == {i \in DOMAIN DIRECTION_PATTERNS :
                    HasWord(lower, DIRECTION_PATTERNS[i].words)}
        first == CHOOSE i \in hits : \A j \in hits : i <= j
    IN  IF STOP_RE(lower)
        THEN RobotCommand(STOP, None, UNSET, CONFIDENCE, <<>>, t)
        ELSE IF ROTATE_LEFT_RE(lower)
        THEN RobotCommand("ROTATE_LEFT", get_magnitude(lower), UNSET, CONFIDENCE, <<>>, t)
        ELSE IF ROTATE_RIGHT_RE(lower)
        THEN RobotCommand("ROTATE_RIGHT", get_magnitude(lower), UNSET, CONFIDENCE, <<>>, t)
        ELSE IF hits # {}
        THEN RobotCommand(DIRECTION_PATTERNS[first].action, get_magnitude(lower),
                          UNSET, CONFIDENCE, <<>>, t)
        ELSE NoCommand


(***************************************************************************)
(* pipeline/fallback.py : FallbackManager                                  *)
(***************************************************************************)
\* Default of CommandValidator's confidence_threshold.
DEFAULT_CONFIDENCE_THRESHOLD == 700

FALLBACK_CONFIDENCE_THRESHOLD == 500

\* Exception classes a parser may raise; all derive from Exception.
ExceptionKinds == {"ConnectionError", "ValueError", "TimeoutError", "RuntimeError"}

\* "except (ValueError, RuntimeError)" : a handler that names the classes it
\* expects and so lets a transport error or a timeout through.
CaughtNamedOnly(exc) == exc \in {"ValueError", "RuntimeError"}

\* "except Exception" : is an exception of class exc handled?
Caught(exc) == exc \in ExceptionKinds

\* The acceptance test with ">" in place of ">=".
LlmAcceptsStrict(c) == c.confidence > FALLBACK_CONFIDENCE_THRESHOLD

\* The acceptance test left out: whatever the semantic parser returns is used.
LlmAcceptsAny(c) == c.confidence >= 0

\* The acceptance test made against the validator's threshold.
LlmAcceptsValidatorThreshold(c) == c.confidence >= threshold

\* "if cmd.confidence >= self.FALLBACK_CONFIDENCE_THRESHOLD"
LlmAccepts(c) == c.confidence >= FALLBACK_CONFIDENCE_THRESHOLD

\* The safe default built the way RobotCommand.create_stop builds a STOP.
safe_stop_full_confidence(t) == RobotCommand(STOP, None, UNSET, 1000, <<>>, t)

\* The safe default built with the regex parser's confidence.
safe_stop_regex_confidence(t) == RobotCommand(STOP, None, UNSET, CONFIDENCE, <<>>, t)

\* The command built when both tiers are exhausted.
safe_stop(t) == RobotCommand(STOP, None, UNSET, 0, <<>>, t)

\* The regex_parser objects a FallbackManager is built with: the repository's
\* RegexFallbackParser, or a parser whose parse raises.
RegexParsers == {"RegexFallbackParser", "Raises"}

\* self.regex_parser.parse(text)
RegexOutcome(kind, t) ==
    IF kind = "RegexFallbackParser"
    THEN [kind |-> "return", cmd |-> parse(t), exc |-> "-"]
    ELSE [kind |-> "raise", cmd |-> NoCommand, exc |-> "RuntimeError"]

NoOutcome == [kind |-> "-", cmd |-> NoCommand, exc |-> "-"]

\* No construction under way.
NoArgs == [action |-> "-"]

\* No concurrent callers.
NoCalls == <<>>

\* No chat-completion request made.
NoApi == [kind |-> "-"]

(***************************************************************************)
(* Inputs                                                                  *)
(***************************************************************************)
\* Confidences the semantic parser reports.
SemConfidences == {0, 499, 500, 600, 1000}

\* Commands the semantic parser may return for the utterance t.
SemCommands(t) ==
    {RobotCommand(a, m, UNSET, c, <<>>, t) :
        a \in Action, m \in Magnitude \cup {None}, c \in SemConfidences}

\* Validation thresholds a pipeline is configured with.
PipeThresholds == {300, 700, 1000}

\* Confidences and thresholds given to the validator alone.
Confidences == {0, 5, 100, 125, 499, 500, 600, 690, 695, 699, 700, 701, 1000}

Thresholds == {0, 500, 690, 700, 705, 1000}

ValidatorCommands ==
    {RobotCommand(a, UNSET, UNSET, c, <<>>, <<"going">>) :
        a \in Action, c \in Confidences}

(***************************************************************************)
(* LanguageControlPipeline.process_text : one call at a time               *)
(***************************************************************************)
Blank ==
    /\ text = <<>>
    /\ semOut = NoOutcome
    /\ cmd = NoCommand
    /\ source = ""
    /\ valid = FALSE
    /\ message = ""
    /\ trace = <<>>

Init ==
    /\ pc = "idle"
    /\ args = NoArgs
    /\ built = NoCommand
    /\ calls = NoCalls
    /\ api = NoApi
    /\ threshold \in PipeThresholds
    /\ regexKind \in RegexParsers
    /\ Blank

\* process_text(t) up to the call of self.llm_parser.parse(text).
ProcessText(t) ==
    /\ pc = "idle"
    /\ pc' = "llm"
    /\ text' = t
    /\ trace' = <<"llm">>
    /\ UNCHANGED <<threshold, regexKind, semOut, cmd, source, valid, message>>
    /\ UNCHANGED <<args, built, calls, api>>

\* A FallbackManager that asks the semantic parser a second time when its
\* first answer is below the acceptance threshold.
LLMReturnsRetry(c) ==
    /\ pc = "llm"
    /\ semOut' = [kind |-> "return", cmd |-> c, exc |-> "-"]
    /\ IF LlmAccepts(c)
       THEN /\ cmd' = c
            /\ source' = "llm"
            /\ pc' = "validate"
            /\ UNCHANGED trace
       ELSE IF Len(trace) < 2
       THEN /\ pc' = "llm"
            /\ trace' = Append(trace, "llm")
            /\ UNCHANGED <<cmd, source>>
       ELSE /\ pc' = "regex"
            /\ UNCHANGED <<cmd, source, trace>>
    /\ UNCHANGED <<text, threshold, regexKind, valid, message>>
    /\ UNCHANGED <<args, built, calls, api>>

\* The semantic parser returns the command c.
LLMReturns(c) ==
    /\ pc = "llm"
    /\ semOut' = [kind |-> "return", cmd |-> c, exc |-> "-"]
    /\ IF LlmAccepts(c)
       THEN /\ cmd' = c
            /\ source' = "llm"
            /\ pc' = "validate"
       ELSE /\ pc' = "regex"
            /\ UNCHANGED <<cmd, source>>
    /\ UNCHANGED <<text, threshold, regexKind, valid, message, trace>>
    /\ UNCHANGED <<args, built, calls, api>>

\* The semantic parser raises an exception of class e.
LLMRaises(e) ==
    /\ pc = "llm"
    /\ semOut' = [kind |-> "raise", cmd |-> NoCommand, exc |-> e]
    /\ pc' = IF Caught(e) THEN "regex" ELSE "raised"
    /\ UNCHANGED <<text, threshold, regexKind, cmd, source, valid, message, trace>>
    /\ UNCHANGED <<args, built, calls, api>>

\* The regex tier and, when it yields nothing, the safe default.
RegexTier ==
    /\ pc = "regex"
    /\ LET out == RegexOutcome(regexKind, text)
       IN  IF out.kind = "return" /\ out.cmd # NoCommand
           THEN /\ cmd' = out.cmd
                /\ source' = "regex"
                /\ trace' = Append(trace, "regex")
                /\ pc' = "validate"
           ELSE IF out.kind = "raise" /\ ~Caught(out.exc)
           THEN /\ pc' = "raised"
                /\ trace' = Append(trace, "regex")
                /\ UNCHANGED <<cmd, source>>
           ELSE /\ cmd' = safe_stop(text)
                /\ source' = "failed"
                /\ trace' = trace \o <<"regex", "default">>
                /\ pc' = "validate"
    /\ UNCHANGED <<text, threshold, regexKind, semOut, valid, message>>
    /\ UNCHANGED <<args, built, calls, api>>

\* valid, message = self.validator.validate(cmd); the result dict is built.
Validate ==
    /\ pc = "validate"
    /\ valid' = validate(cmd, threshold)[1]
    /\ message' = validate(cmd, threshold)[2]
    /\ pc' = "done"
    /\ UNCHANGED <<text, threshold, regexKind, semOut, cmd, source, trace>>
    /\ UNCHANGED <<args, built, calls, api>>

\* The caller takes the result; the pipeline is ready for the next call.
Return ==
    /\ pc = "done"
    /\ pc' = "idle"
    /\ text' = <<>>
    /\ semOut' = NoOutcome
    /\ cmd' = NoCommand
    /\ source' = ""
    /\ valid' = FALSE
    /\ message' = ""
    /\ trace' = <<>>
    /\ UNCHANGED <<threshold, regexKind>>
    /\ UNCHANGED <<args, built, calls, api>>

Next ==
    \/ \E t \in PipeTexts : ProcessText(t)
    \/ \E c \in SemCommands(text) : LLMReturns(c)
    \/ \E e \in ExceptionKinds : LLMRaises(e)
    \/ RegexTier
    \/ Validate
    \/ Return

Spec == Init /\ [][Next]_vars

\* The interpreter runs the synchronous code after the semantic parser's
\* answer to completion; nothing in the code bounds the wait for that answer.
LiveSpec == Spec /\ WF_vars(RegexTier) /\ WF_vars(Validate) /\ WF_vars(Return)

(***************************************************************************)
(* RegexFallbackParser.parse alone, on every utterance of Texts            *)
(***************************************************************************)
InitRegex ==
    /\ pc = "parse"
    /\ args = NoArgs
    /\ built = NoCommand
    /\ calls = NoCalls
    /\ api = NoApi
    /\ text \in Texts
    /\ threshold = 700
    /\ regexKind = "RegexFallbackParser"
    /\ semOut = NoOutcome
    /\ cmd = NoCommand
    /\ source = ""
    /\ valid = FALSE
    /\ message = ""
    /\ trace = <<>>

Parse ==
    /\ pc = "parse"
    /\ cmd' = parse(text)
    /\ pc' = "parsed"
    /\ UNCHANGED <<text, threshold, regexKind, semOut, source, valid, message, trace>>
    /\ UNCHANGED <<args, built, calls, api>>

NextRegex == Parse

SpecRegex == InitRegex /\ [][NextRegex]_vars

(***************************************************************************)
(* CommandValidator.validate alone                                         *)
(***************************************************************************)
InitValidator ==
    /\ pc = "check"
    /\ args = NoArgs
    /\ built = NoCommand
    /\ calls = NoCalls
    /\ api = NoApi
    /\ cmd \in ValidatorCommands
    /\ threshold \in Thresholds
    /\ text = cmd.raw_text
    /\ regexKind = "RegexFallbackParser"
    /\ semOut = NoOutcome
    /\ source = ""
    /\ valid = FALSE
    /\ message = ""
    /\ trace = <<>>

Check ==
    /\ pc = "check"
    /\ valid' = validate(cmd, threshold)[1]
    /\ message' = validate(cmd, threshold)[2]
    /\ pc' = "checked"
    /\ UNCHANGED <<text, threshold, regexKind, semOut, cmd, source, trace>>
    /\ UNCHANGED <<args, built, calls, api>>

NextValidator == Check

SpecValidator == InitValidator /\ [][NextValidator]_vars


(***************************************************************************)
(* RobotCommand alone: construction from keyword arguments, then what a    *)
(* holder of the object can do with it                                     *)
(***************************************************************************)
\* Literals given as action: the nine of Action, an unknown one, and a known
\* one in the wrong letter case.
ActionLiterals == Action \cup {"FLY_AWAY", "stop"}

\* Literals given as magnitude: omitted, null, the three of Magnitude, and an
\* unknown one.
MagnitudeLiterals == {UNSET, None} \cup Magnitude \cup {"HUGE"}

\* Values given as frame: omitted, the default, and another string.
FrameLiterals == {UNSET, "CAMERA", "WORLD"}

\* Confidences given to the constructor, in and around [0, 1].
ArgConfidences == {-100, -1, 0, 1, 600, 1000, 1001, 1100}

\* value_mm given to the constructor: omitted or null, and explicit values.
ArgValues == {<<>>, <<25>>, <<40>>}

ConstructorArgs ==
    [action : ActionLiterals, magnitude : MagnitudeLiterals, frame : FrameLiterals,
     confidence : ArgConfidences, value_mm : ArgValues, raw_text : {<<"going">>}]

\* Attribute assignments a holder of a command can make.
Assignments ==
    {<<"confidence", 1500>>, <<"magnitude", "BIG">>, <<"value_mm", <<60>>>>,
     <<"action", STOP>>}

InitSchema ==
    /\ pc = "construct"
    /\ args \in ConstructorArgs
    /\ built = NoCommand
    /\ calls = NoCalls
    /\ api = NoApi
    /\ text = args.raw_text
    /\ threshold = 700
    /\ regexKind = "RegexFallbackParser"
    /\ semOut = NoOutcome
    /\ cmd = NoCommand
    /\ source = ""
    /\ valid = FALSE
    /\ message = ""
    /\ trace = <<>>

\* RobotCommand(**args)
Construct ==
    /\ pc = "construct"
    /\ LET c == RobotCommand(args.action, args.magnitude, args.frame,
                             args.confidence, args.value_mm, args.raw_text)
       IN  /\ cmd' = c
           /\ built' = c
           /\ pc' = IF c = ValidationError THEN "rejected" ELSE "built"
    /\ UNCHANGED <<text, threshold, regexKind, semOut, source, valid, message, trace, args>>
    /\ UNCHANGED <<calls, api>>

\* command.<field> = value : the model class is not frozen and does not
\* validate assignments, so the attribute is simply rebound.
SetAttr(field, value) ==
    /\ pc = "built"
    /\ cmd' = [cmd EXCEPT ![field] = value]
    /\ pc' = "assigned"
    /\ UNCHANGED <<text, threshold, regexKind, semOut, source, valid, message, trace,
                   args, built, calls, api>>

\* model_dump with exclude_none=True: a field that holds None is left out.
model_dumpExcludeNone(c) ==
    [action |-> c.action,
     magnitude |-> IF c.magnitude = None THEN UNSET ELSE c.magnitude,
     frame |-> c.frame, confidence |-> c.confidence, value_mm |-> c.value_mm,
     raw_text |-> c.raw_text]

\* c.model_dump() : the dict of the six fields with the values c holds.
model_dump(c) ==
    [action |-> c.action, magnitude |-> c.magnitude, frame |-> c.frame,
     confidence |-> c.confidence, value_mm |-> c.value_mm, raw_text |-> c.raw_text]

\* restored = RobotCommand(**original.model_dump())
Rebuild ==
    /\ pc = "built"
    /\ LET dump == model_dump(cmd)
       IN  cmd' = RobotCommand(dump.action, dump.magnitude, dump.frame,
                               dump.confidence, dump.value_mm, dump.raw_text)
    /\ pc' = "rebuilt"
    /\ UNCHANGED <<text, threshold, regexKind, semOut, source, valid, message, trace,
                   args, built, calls, api>>

NextSchema ==
    \/ Construct
    \/ \E a \in Assignments : SetAttr(a[1], a[2])
    \/ Rebuild

SpecSchema == InitSchema /\ [][NextSchema]_vars

(***************************************************************************)
(* LanguageControlPipeline.process_text : concurrent callers               *)
(*                                                                         *)
(* Several threads call process_text on one pipeline object.  text, cmd,   *)
(* source, valid and message are locals of each call; the pipeline object  *)
(* holds the validator (its threshold), the two parser objects and the     *)
(* class constant FALLBACK_CONFIDENCE_THRESHOLD.  A step is the code       *)
(* between two calls into a parser or the validator.                       *)
(***************************************************************************)
Callers == 1..NumCallers

ConcTexts == {<<"stop">>, <<"left">>, <<"going">>}

ConcConfidences == {499, 600, 1000}

\* Commands the semantic parser may return to a concurrent caller.
ConcCommands(t) ==
    {RobotCommand("MOVE_UP", "SMALL", UNSET, c, <<>>, t) : c \in ConcConfidences}

ConcExceptions == {"TimeoutError"}

ConcThresholds == {700, 1000}

\* The locals of a caller that is not inside process_text.
IdleCall ==
    [pc |-> "idle", text |-> <<>>, semOut |-> NoOutcome, cmd |-> NoCommand,
     source |-> "", valid |-> FALSE, message |-> ""]

InitConcurrent ==
    /\ pc = "concurrent"
    /\ args = NoArgs
    /\ built = NoCommand
    /\ api = NoApi
    /\ calls = [i \in Callers |-> IdleCall]
    /\ threshold \in ConcThresholds
    /\ regexKind \in RegexParsers
    /\ Blank

\* Caller i enters process_text(t) and reaches self.llm_parser.parse(text).
CallProcessText(i, t) ==
    /\ calls[i].pc = "idle"
    /\ calls' = [calls EXCEPT ![i].pc = "llm", ![i].text = t]
    /\ UNCHANGED <<pc, text, threshold, regexKind, semOut, cmd, source, valid,
                   message, trace, args, built, api>>

\* The semantic parser returns the command c to caller i.
CallLLMReturns(i, c) ==
    /\ calls[i].pc = "llm"
    /\ calls' = IF LlmAccepts(c)
                THEN [calls EXCEPT
                        ![i].semOut = [kind |-> "return", cmd |-> c, exc |-> "-"],
                        ![i].cmd = c,
                        ![i].source = "llm",
                        ![i].pc = "validate"]
                ELSE [calls EXCEPT
                        ![i].semOut = [kind |-> "return", cmd |-> c, exc |-> "-"],
                        ![i].pc = "regex"]
    /\ UNCHANGED <<pc, text, threshold, regexKind, semOut, cmd, source, valid,
                   message, trace, args, built, api>>

\* The semantic parser raises an exception of class e in caller i.
CallLLMRaises(i, e) ==
    /\ calls[i].pc = "llm"
    /\ calls' = [calls EXCEPT
                    ![i].semOut = [kind |-> "raise", cmd |-> NoCommand, exc |-> e],
                    ![i].pc = IF Caught(e) THEN "regex" ELSE "raised"]
    /\ UNCHANGED <<pc, text, threshold, regexKind, semOut, cmd, source, valid,
                   message, trace, args, built, api>>

\* The regex tier and, when it yields nothing, the safe default, in caller i.
CallRegexTier(i) ==
    /\ calls[i].pc = "regex"
    /\ LET out == RegexOutcome(regexKind, calls[i].text)
       IN  calls' = IF out.kind = "return" /\ out.cmd # NoCommand
                    THEN [calls EXCEPT ![i].cmd = out.cmd,
                                       ![i].source = "regex",
                                       ![i].pc = "validate"]
                    ELSE IF out.kind = "raise" /\ ~Caught(out.exc)
                    THEN [calls EXCEPT ![i].pc = "raised"]
                    ELSE [calls EXCEPT ![i].cmd = safe_stop(calls[i].text),
                                       ![i].source = "failed",
                                       ![i].pc = "validate"]
    /\ UNCHANGED <<pc, text, threshold, regexKind, semOut, cmd, source, valid,
                   message, trace, args, built, api>>

\* validate with the validator's threshold written from the command just
\* seen (a validator that adapts itself to its input).
CallValidateAdaptive(i) ==
    /\ calls[i].pc = "validate"
    /\ calls' = [calls EXCEPT
                    ![i].valid = validate(calls[i].cmd, threshold)[1],
                    ![i].message = validate(calls[i].cmd, threshold)[2],
                    ![i].pc = "done"]
    /\ threshold' = IF calls[i].cmd.confidence > 0
                    THEN calls[i].cmd.confidence
                    ELSE threshold
    /\ UNCHANGED <<pc, text, regexKind, semOut, cmd, source, valid,
                   message, trace, args, built, api>>

\* valid, message = self.validator.validate(cmd) in caller i.
CallValidate(i) ==
    /\ calls[i].pc = "validate"
    /\ calls' = [calls EXCEPT
                    ![i].valid = validate(calls[i].cmd, threshold)[1],
                    ![i].message = validate(calls[i].cmd, threshold)[2],
                    ![i].pc = "done"]
    /\ UNCHANGED <<pc, text, threshold, regexKind, semOut, cmd, source, valid,
                   message, trace, args, built, api>>

\* Caller i takes its result and leaves process_text.
CallReturn(i) ==
    /\ calls[i].pc = "done"
    /\ calls' = [calls EXCEPT ![i] = IdleCall]
    /\ UNCHANGED <<pc, text, threshold, regexKind, semOut, cmd, source, valid,
                   message, trace, args, built, api>>

NextConcurrent ==
    \E i \in Callers :
        \/ \E t \in ConcTexts : CallProcessText(i, t)
        \/ \E c \in ConcCommands(calls[i].text) : CallLLMReturns(i, c)
        \/ \E e \in ConcExceptions : CallLLMRaises(i, e)
        \/ CallRegexTier(i)
        \/ CallValidate(i)
        \/ CallReturn(i)

SpecConcurrent == InitConcurrent /\ [][NextConcurrent]_vars


(***************************************************************************)
(* parser/llm_parser.py : LLMCommandParser.parse inside the pipeline       *)
(***************************************************************************)
\* Exception classes the chat-completion request raises.
ApiExceptions == {"ConnectionError", "TimeoutError"}

\* message.content of a response: text that is not JSON, a JSON array, no
\* content at all (None), or a JSON object.
ApiBodies == {"not-json", "json-array", "null-content", "json-object"}

\* Keys and values of the JSON object of a response; UNSET is a missing key.
LLMActions == {"MOVE_UP", STOP, "FLY_AWAY", UNSET}

LLMMagnitudes == {UNSET, None, "SMALL", "HUGE"}

LLMConfidences == {-100, 0, 499, 500, 950, 1100}

LLMData ==
    [action : LLMActions, magnitude : LLMMagnitudes, frame : {"CAMERA"},
     confidence : LLMConfidences, value_mm : {<<>>}]

NoData == [action |-> "-"]

\* What self.client.chat.completions.create(...) does.
ApiResponses ==
    {[kind |-> "raise", exc |-> e, body |-> "-", data |-> NoData] :
        e \in ApiExceptions}
    \cup {[kind |-> "content", exc |-> "-", body |-> b, data |-> NoData] :
        b \in ApiBodies \ {"json-object"}}
    \cup {[kind |-> "content", exc |-> "-", body |-> "json-object", data |-> dt] :
        dt \in LLMData}

\* Exception classes that can come up inside the try block of parse.
LlmExceptionClasses ==
    ApiExceptions \cup {"JSONDecodeError", "TypeError", "ValidationError"}

\* "except (ValidationError, json.JSONDecodeError)" : the handler without its
\* catch-all class.
LlmCaughtParseErrorsOnly(exc) == exc \in {"ValidationError", "JSONDecodeError"}

\* "except (ValidationError, json.JSONDecodeError, Exception)"
LlmCaught(exc) == exc \in LlmExceptionClasses

\* LLMCommandParser.parse(t) when the request does r.
llm_parse(r, t) ==
    LET built_cmd == RobotCommand(r.data.action, r.data.magnitude, r.data.frame,
                                  r.data.confidence, r.data.value_mm, t)
        raised == CASE r.kind = "raise" -> r.exc
                    [] r.body = "not-json" -> "JSONDecodeError"
                    [] r.body = "json-array" -> "TypeError"
                    [] r.body = "null-content" -> "TypeError"
                    [] OTHER -> IF built_cmd = ValidationError
                                THEN "ValidationError"
                                ELSE "-"
    IN  IF raised = "-"
        THEN [kind |-> "return", cmd |-> built_cmd, exc |-> "-"]
        ELSE IF LlmCaught(raised)
        THEN [kind |-> "return", cmd |-> RobotCommand(STOP, None, UNSET, 0, <<>>, t),
              exc |-> "-"]
        ELSE [kind |-> "raise", cmd |-> NoCommand, exc |-> raised]

InitLLM ==
    /\ pc = "idle"
    /\ args = NoArgs
    /\ built = NoCommand
    /\ calls = NoCalls
    /\ api = NoApi
    /\ threshold = DEFAULT_CONFIDENCE_THRESHOLD
    /\ regexKind \in RegexParsers
    /\ Blank

\* parse_with_fallback calls LLMCommandParser.parse, whose request does r, and
\* applies its acceptance test to what parse hands back.
LLMParserCall(r) ==
    /\ pc = "llm"
    /\ api' = r
    /\ LET out == llm_parse(r, text)
       IN  /\ semOut' = out
           /\ IF out.kind = "return" /\ LlmAccepts(out.cmd)
              THEN /\ cmd' = out.cmd
                   /\ source' = "llm"
                   /\ pc' = "validate"
              ELSE /\ pc' = IF out.kind = "return" \/ Caught(out.exc)
                            THEN "regex"
                            ELSE "raised"
                   /\ UNCHANGED <<cmd, source>>
    /\ UNCHANGED <<text, threshold, regexKind, valid, message, trace>>
    /\ UNCHANGED <<args, built, calls>>

NextLLM ==
    \/ \E t \in PipeTexts : ProcessText(t)
    \/ \E r \in ApiResponses : LLMParserCall(r)
    \/ RegexTier
    \/ Validate

SpecLLM == InitLLM /\ [][NextLLM]_vars


(***************************************************************************)
(* Properties                                                              *)
(***************************************************************************)
CommandFields == {"action", "magnitude", "frame", "confidence", "value_mm", "raw_text"}

\* c is a RobotCommand that satisfies the schema's invariants.
SchemaValid(c) ==
    /\ DOMAIN c = CommandFields
    /\ c.action \in Action
    /\ c.magnitude \in Magnitude \cup {None}
    /\ c.confidence \in 0..1000
    /\ c.action = STOP => (c.magnitude = None /\ c.value_mm = <<>>)

\* parse_with_fallback has returned (the call is at or past validation).
Returned == pc \in {"validate", "done"}

\* The semantic tier gave nothing usable: it raised, or its confidence is
\* below the fallback-acceptance threshold.
SemFailed ==
    \/ semOut.kind = "raise"
    \/ semOut.kind = "return" /\ semOut.cmd.confidence < 500

\* The regex tier gave nothing usable: no match, or it raised.
RegexFailed == regexKind = "Raises" \/ parse(text) = NoCommand

\* C1: parse_with_fallback never raises; whatever the semantic parser does
\* (returns a command at any confidence, raises) and whatever the regex
\* parser does (command, None, raises), it returns a schema-valid command
\* and a source among "llm", "regex", "failed".
C1_NeverRaises ==
    /\ pc # "raised"
    /\ Returned => (SchemaValid(cmd) /\ source \in {"llm", "regex", "failed"})

C1_Witness ==
    /\ pc = "done"
    /\ semOut.kind = "raise"
    /\ semOut.exc = "TimeoutError"
    /\ regexKind = "Raises"
    /\ source = "failed"

\* C2 as stated: whenever the semantic parser returns a STOP command, at any
\* confidence, the command finally returned is a STOP and the validator
\* accepts it.
C2_Original ==
    (pc = "done" /\ semOut.kind = "return" /\ semOut.cmd.action = STOP)
        => (cmd.action = STOP /\ valid)

\* C2 (amended): every STOP command the pipeline returns, from any tier and at
\* any confidence, is accepted by the validator with "ok"; and a semantic STOP
\* whose confidence is at least 0.5 is the command returned, with source
\* "llm", and is accepted at every validation threshold.
C2_StopNeverBlockedByValidator ==
    pc = "done" =>
        /\ cmd.action = STOP => (valid /\ message = "ok")
        /\ (semOut.kind = "return" /\ semOut.cmd.action = STOP
              /\ semOut.cmd.confidence >= 500)
            => (cmd = semOut.cmd /\ source = "llm" /\ valid)

C2_Witness ==
    /\ pc = "done"
    /\ semOut.kind = "return"
    /\ semOut.cmd.action = STOP
    /\ semOut.cmd.confidence = 500
    /\ threshold = 1000
    /\ source = "llm"
    /\ valid

\* Words the claim names as stop cues, met as whole tokens of the utterance
\* in any letter case, and the two-token cue "don't move".
HasStopCue(t) ==
    \E i \in DOMAIN t :
        \/ Lower(t[i]) \in {"stop", "halt", "freeze", "hold"}
        \/ Lower(t[i]) = "don't" /\ i < Len(t) /\ Lower(t[i + 1]) = "move"

\* C3: the stop tier is checked first: an utterance that contains a stop cue
\* as a whole word parses to STOP, whatever rotation, direction or magnitude
\* cues stand before or after it.
C3_StopCueWins ==
    (pc = "parsed" /\ HasStopCue(text)) => cmd.action = STOP

C3_Witness ==
    /\ pc = "parsed"
    /\ text = <<"turn", "left", "stop">>
    /\ cmd.action = STOP

\* C4: validate returns (True, "ok") for every STOP command, at every
\* confidence (0.0 included) and every threshold.
C4_StopAlwaysValid ==
    (pc = "checked" /\ cmd.action = STOP) => (valid = TRUE /\ message = "ok")

C4_Witness ==
    /\ pc = "checked"
    /\ cmd.action = STOP
    /\ cmd.confidence = 0
    /\ threshold = 1000
    /\ valid

\* The two-decimal rendering of the confidences and thresholds used, as
\* Python prints them.
TwoDecimals(m) ==
    CASE m = 0 -> "0.00"
      [] m = 5 -> "0.01"
      [] m = 100 -> "0.10"
      [] m = 125 -> "0.12"
      [] m = 499 -> "0.50"
      [] m = 500 -> "0.50"
      [] m = 600 -> "0.60"
      [] m = 690 -> "0.69"
      [] m = 695 -> "0.69"
      [] m = 699 -> "0.70"
      [] m = 700 -> "0.70"
      [] m = 701 -> "0.70"
      [] m = 705 -> "0.70"
      [] m = 1000 -> "1.00"

\* C5: a non-stop command is accepted with "ok" exactly when its confidence
\* is at least the threshold (equality accepted); otherwise the reason gives
\* the confidence and the threshold, each with two decimals.
C5_ThresholdIff ==
    (pc = "checked" /\ cmd.action # STOP) =>
        /\ valid <=> cmd.confidence >= threshold
        /\ valid => message = "ok"
        /\ ~valid => message = "confidence " \o TwoDecimals(cmd.confidence)
                                \o " < " \o TwoDecimals(threshold)

C5_Witness ==
    /\ pc = "checked"
    /\ cmd.action = "MOVE_LEFT"
    /\ cmd.confidence = 690
    /\ threshold = 700
    /\ ~valid
    /\ message = "confidence 0.69 < 0.70"

\* C6: a semantic command with confidence at least 0.5 (0.5 included) is
\* returned unchanged with source "llm", whatever the regex parser would say.
C6_SemanticAccepted ==
    (Returned /\ semOut.kind = "return" /\ semOut.cmd.confidence >= 500)
        => (cmd = semOut.cmd /\ source = "llm")

C6_Witness ==
    /\ pc = "done"
    /\ semOut.kind = "return"
    /\ semOut.cmd.confidence = 500
    /\ semOut.cmd.action = "MOVE_UP"
    /\ regexKind = "RegexFallbackParser"
    /\ parse(text).action = STOP
    /\ source = "llm"

\* C7: every semantic failure is handled alike: whether the semantic parser
\* raised (any class) or returned confidence below 0.5, the result is never
\* the semantic one; when the regex parser matches, the result is its command
\* with source "regex" ("retract" gives RETRACT, MID, 0.6), otherwise the
\* source is "failed".
C7_FailuresAlike ==
    (Returned /\ SemFailed) =>
        /\ source # "llm"
        /\ ~RegexFailed => (cmd = parse(text) /\ source = "regex")
        /\ RegexFailed => source = "failed"
        /\ (~RegexFailed /\ text = <<"retract">>) =>
              (cmd.action = "RETRACT" /\ cmd.magnitude = "MID" /\ cmd.confidence = 600)

C7_Witness ==
    /\ pc = "done"
    /\ semOut.kind = "raise"
    /\ semOut.exc = "ConnectionError"
    /\ text = <<"retract">>
    /\ source = "regex"
    /\ cmd.action = "RETRACT"

\* C8: when neither tier gives a usable command the result is STOP with
\* confidence 0.0, no magnitude, no value_mm, raw_text the input text and
\* source "failed"; a low-confidence semantic command is never returned.
C8_SafeDefault ==
    (Returned /\ SemFailed /\ RegexFailed) =>
        /\ cmd.action = STOP
        /\ cmd.confidence = 0
        /\ cmd.magnitude = None
        /\ cmd.value_mm = <<>>
        /\ cmd.raw_text = text
        /\ source = "failed"

C8_Witness ==
    /\ pc = "done"
    /\ semOut.kind = "return"
    /\ semOut.cmd.action = "MOVE_LEFT"
    /\ semOut.cmd.confidence = 499
    /\ regexKind = "RegexFallbackParser"
    /\ text = <<"going", "going">>
    /\ source = "failed"

\* C9: the tier is selected against 0.5 alone, whatever the validator's
\* threshold: a returned semantic command is used exactly when its confidence
\* is at least 0.5, and a non-stop one with confidence at least 0.5 but below
\* the validation threshold is returned with source "llm" and then rejected.
C9_ThresholdsIndependent ==
    (pc = "done" /\ semOut.kind = "return") =>
        /\ source = "llm" <=> semOut.cmd.confidence >= 500
        /\ (semOut.cmd.action # STOP /\ semOut.cmd.confidence >= 500
              /\ semOut.cmd.confidence < threshold)
            => (source = "llm" /\ cmd = semOut.cmd /\ ~valid)

C9_Witness ==
    /\ pc = "done"
    /\ semOut.kind = "return"
    /\ semOut.cmd.action = "MOVE_DOWN"
    /\ semOut.cmd.confidence = 600
    /\ threshold = 700
    /\ source = "llm"
    /\ ~valid

\* C10: every parse_with_fallback call eventually returns, even when the
\* semantic parser does not answer: the wait is bounded by a timeout.
C10_EventuallyReturns == (pc = "llm") ~> Returned


\* The construction under way has finished, with a command or a rejection.
Constructed == pc \in {"built", "rejected"}

\* The arguments break the schema: confidence outside [0, 1], or an action or
\* magnitude literal outside the closed vocabularies.
ArgsViolateSchema ==
    \/ args.confidence < 0
    \/ args.confidence > 1000
    \/ args.action \notin {"MOVE_FORWARD", "RETRACT", "MOVE_LEFT", "MOVE_RIGHT",
                           "MOVE_UP", "MOVE_DOWN", "ROTATE_LEFT", "ROTATE_RIGHT",
                           "STOP"}
    \/ args.magnitude \notin {"SMALL", "MID", "BIG", None, UNSET}

\* C11: schema violations are rejected at construction and never coerced: a
\* confidence outside [0, 1] or an unknown action or magnitude literal gives a
\* validation error and no command; every other construction, confidence 0.0
\* and 1.0 included, succeeds and keeps the confidence and action given.
C11_ViolationsRejected ==
    Constructed =>
        /\ ArgsViolateSchema => (pc = "rejected" /\ cmd = ValidationError)
        /\ ~ArgsViolateSchema =>
              /\ pc = "built"
              /\ cmd.confidence = args.confidence
              /\ cmd.action = args.action

C11_Witness ==
    /\ pc = "rejected"
    /\ args.action = "MOVE_UP"
    /\ args.magnitude = "SMALL"
    /\ args.confidence = 1001
    /\ cmd = ValidationError

\* C12: every constructed command with action STOP has no magnitude and no
\* value_mm, whatever magnitude or value_mm the caller supplied.
C12_StopCleared ==
    (pc = "built" /\ cmd.action = STOP) => (cmd.magnitude = None /\ cmd.value_mm = <<>>)

C12_Witness ==
    /\ pc = "built"
    /\ args.action = STOP
    /\ args.magnitude = "BIG"
    /\ args.value_mm = <<25>>
    /\ cmd.magnitude = None
    /\ cmd.value_mm = <<>>

\* C13: a constructed non-stop command whose magnitude was omitted or given
\* as null has magnitude MID; no non-stop command has magnitude none.
C13_MagnitudeDefaultsToMid ==
    (pc = "built" /\ cmd.action # STOP) =>
        /\ args.magnitude \in {UNSET, None} => cmd.magnitude = "MID"
        /\ cmd.magnitude # None

\* The millimetre value the claim gives for a magnitude.
ClaimedLookup(m) ==
    CASE m = "SMALL" -> 20
      [] m = "MID" -> 40
      [] m = "BIG" -> 60

\* C14: a constructed non-stop command with resolved magnitude m has value_mm
\* equal to the table value of m (SMALL 2.0, MID 4.0, BIG 6.0) when none was
\* supplied, and equal to the supplied value when one was given.
C14_ValueFromLookup ==
    (pc = "built" /\ cmd.action # STOP /\ cmd.magnitude # None) =>
        cmd.value_mm = IF args.value_mm = <<>>
                       THEN <<ClaimedLookup(cmd.magnitude)>>
                       ELSE args.value_mm

C14_Witness ==
    /\ pc = "built"
    /\ args.action = "MOVE_LEFT"
    /\ args.magnitude = "BIG"
    /\ args.value_mm = <<25>>
    /\ cmd.magnitude = "BIG"
    /\ cmd.value_mm = <<25>>

\* C15: a command is immutable once built: whatever is done with it,
\* attribute assignment included, its fields equal their values at
\* construction and the construction invariants still hold.
C15_Immutable ==
    pc \in {"built", "assigned"} =>
        /\ cmd = built
        /\ cmd.confidence \in 0..1000
        /\ cmd.action = STOP => (cmd.magnitude = None /\ cmd.value_mm = <<>>)

\* C16: every constructed command has frame "CAMERA"; a frame of any other
\* value is rejected at construction.
C16_FrameFixed ==
    /\ pc = "built" => cmd.frame = "CAMERA"
    /\ (Constructed /\ args.frame \notin {UNSET, "CAMERA"}) => pc = "rejected"


\* Token i of t, lower-cased, is followed by the token w.
FollowedBy(t, i, w) == i < Len(t) /\ Lower(t[i + 1]) = w

\* The utterance holds a rotate-left cue: rotate, twist or turn followed by
\* left, or counter-clockwise in one of its three spellings.
HasRotateLeftCue(t) ==
    \E i \in DOMAIN t :
        \/ Lower(t[i]) \in {"rotate", "twist", "turn"} /\ FollowedBy(t, i, "left")
        \/ Lower(t[i]) \in {"counter-clockwise", "counterclockwise"}
        \/ Lower(t[i]) = "counter" /\ FollowedBy(t, i, "clockwise")

\* The utterance holds a rotate-right cue: rotate, twist or turn followed by
\* right, or clockwise.
HasRotateRightCue(t) ==
    \E i \in DOMAIN t :
        \/ Lower(t[i]) \in {"rotate", "twist", "turn"} /\ FollowedBy(t, i, "right")
        \/ Lower(t[i]) = "clockwise"

\* C17: the rotation tier is checked before the direction tier: an utterance
\* with no stop cue and a rotation cue parses to ROTATE_LEFT or ROTATE_RIGHT,
\* never to a MOVE action; rotate-left cues are tested first, so an utterance
\* with a rotate-left cue (counter-clockwise among them) gives ROTATE_LEFT.
C17_RotationBeforeDirection ==
    (pc = "parsed" /\ ~HasStopCue(text)) =>
        /\ HasRotateLeftCue(text) => cmd.action = "ROTATE_LEFT"
        /\ (HasRotateRightCue(text) /\ ~HasRotateLeftCue(text))
              => cmd.action = "ROTATE_RIGHT"

C17_Witness ==
    /\ pc = "parsed"
    /\ text = <<"right", "counter-clockwise", "up">>
    /\ cmd.action = "ROTATE_LEFT"

\* The direction families in their fixed order.
FamilyOrder ==
    <<"MOVE_UP", "MOVE_DOWN", "MOVE_LEFT", "MOVE_RIGHT", "MOVE_FORWARD", "RETRACT">>

\* Family i has a whole-word cue among the tokens of t.
FamilyHit(t, i) == \E k \in DOMAIN t : Lower(t[k]) \in DIRECTION_PATTERNS[i].words

\* C18: with no stop cue and no rotation cue, the action is that of the first
\* family in the order up, down, left, right, forward, retract that has a
\* whole-word match, wherever the cue words stand in the sentence.
C18_FirstFamilyWins ==
    (pc = "parsed" /\ ~HasStopCue(text) /\ ~HasRotateLeftCue(text)
       /\ ~HasRotateRightCue(text)) =>
        \A i \in 1..6 :
            (FamilyHit(text, i) /\ \A j \in 1..(i - 1) : ~FamilyHit(text, j))
                => cmd.action = FamilyOrder[i]

C18_Witness ==
    /\ pc = "parsed"
    /\ text = <<"retract", "right", "up">>
    /\ cmd.action = "MOVE_UP"

\* The utterance holds a small cue, resp. a big cue.
HasSmallCue(t) ==
    \E i \in DOMAIN t :
        \/ Lower(t[i]) \in {"slightly", "tiny", "nudge", "bit", "smidge"}
        \/ Lower(t[i]) = "a" /\ FollowedBy(t, i, "little")

HasBigCue(t) ==
    \E i \in DOMAIN t :
        \/ Lower(t[i]) \in {"big", "far", "much", "significantly", "way"}
        \/ Lower(t[i]) = "a" /\ FollowedBy(t, i, "lot")

\* C19: for every non-stop match the magnitude comes from the whole utterance,
\* whatever action matched: SMALL if a small cue is present (even beside a big
\* cue), otherwise BIG if a big cue is present, otherwise MID.
C19_MagnitudeFromUtterance ==
    (pc = "parsed" /\ cmd # NoCommand /\ cmd.action # STOP) =>
        /\ cmd.magnitude = IF HasSmallCue(text) THEN "SMALL"
                           ELSE IF HasBigCue(text) THEN "BIG"
                           ELSE "MID"
        /\ text = <<"nudge", "left">> => cmd.action = "MOVE_LEFT"
        /\ text = <<"going", "way", "up">> => (cmd.action = "MOVE_UP" /\ cmd.magnitude = "BIG")
        /\ text = <<"retract">> => (cmd.action = "RETRACT" /\ cmd.magnitude = "MID")

C19_Witness ==
    /\ pc = "parsed"
    /\ text = <<"way", "nudge", "left">>
    /\ cmd.action = "MOVE_LEFT"
    /\ cmd.magnitude = "SMALL"

\* C20: every command the regex parser returns, STOP included, has confidence
\* exactly 0.6, below the validator's default threshold 0.7 and at or above
\* the fallback-acceptance threshold 0.5.
C20_FixedConfidence ==
    (pc = "parsed" /\ cmd # NoCommand) =>
        /\ cmd.confidence = 600
        /\ cmd.confidence < DEFAULT_CONFIDENCE_THRESHOLD
        /\ cmd.confidence >= FALLBACK_CONFIDENCE_THRESHOLD

C20_Witness ==
    /\ pc = "parsed"
    /\ text = <<"don't", "move">>
    /\ cmd.action = STOP
    /\ cmd.confidence = 600

\* The utterance holds a cue of one of the three tiers of the parser.
HasAnyCue(t) ==
    \/ HasStopCue(t)
    \/ HasRotateLeftCue(t)
    \/ HasRotateRightCue(t)
    \/ \E i \in 1..6 : FamilyHit(t, i)

\* C21: RegexFallbackParser.parse fails for no text: it returns either a
\* schema-valid command or None, and it returns None exactly when the text
\* holds no stop cue, no rotation cue and no direction cue.
C21_NoneIffNoCue ==
    pc = "parsed" =>
        /\ cmd # ValidationError
        /\ cmd = NoCommand \/ SchemaValid(cmd)
        /\ cmd = NoCommand <=> ~HasAnyCue(text)

\* An utterance of two words that resemble cues without being one ("going",
\* "stopped") has been parsed and gave None.
C21_Witness ==
    /\ pc = "parsed"
    /\ text = <<"going", "stopped">>
    /\ cmd = NoCommand

\* What a process_text call returns when it runs alone on a pipeline with
\* regex parser kind and validation threshold thr, for the utterance t and
\* the semantic parser's answer out.
ResultAlone(t, out, kind, thr) ==
    LET r == RegexOutcome(kind, t)
        pr == IF out.kind = "return" /\ out.cmd.confidence >= FALLBACK_CONFIDENCE_THRESHOLD
              THEN <<out.cmd, "llm">>
              ELSE IF r.kind = "return" /\ r.cmd # NoCommand
              THEN <<r.cmd, "regex">>
              ELSE <<safe_stop(t), "failed">>
        v == validate(pr[1], thr)
    IN  [cmd |-> pr[1], source |-> pr[2], valid |-> v[1], message |-> v[2]]

\* The result caller i holds.
ResultOf(i) ==
    [cmd |-> calls[i].cmd, source |-> calls[i].source,
     valid |-> calls[i].valid, message |-> calls[i].message]

\* C22: parsing and validation are stateless: no step of a call writes the
\* validator's threshold or the parser objects, so under every interleaving
\* of concurrent calls each finished call holds the result it would return
\* when run alone, and two calls whose utterance went through the regex
\* parser with the same text hold the same command.
C22_CallsIndependent ==
    /\ [](\A i \in DOMAIN calls :
            calls[i].pc = "done" =>
                ResultOf(i) = ResultAlone(calls[i].text, calls[i].semOut,
                                          regexKind, threshold))
    /\ [](\A i, j \in DOMAIN calls :
            (/\ calls[i].pc \in {"validate", "done"}
             /\ calls[j].pc \in {"validate", "done"}
             /\ calls[i].source \in {"regex", "failed"}
             /\ calls[j].source \in {"regex", "failed"}
             /\ calls[i].text = calls[j].text) =>
                calls[i].cmd = calls[j].cmd)
    /\ [][threshold' = threshold /\ regexKind' = regexKind]_vars

\* Two calls overlapped and both finished: one with an accepted semantic
\* command that the validator rejects, one with a regex STOP it accepts.
C22_Witness ==
    /\ DOMAIN calls = Callers
    /\ calls[1].pc = "done" /\ calls[2].pc = "done"
    /\ calls[1].text = <<"left">> /\ calls[1].source = "llm" /\ ~calls[1].valid
    /\ calls[2].text = <<"stop">> /\ calls[2].source = "regex" /\ calls[2].valid

\* The request of the semantic parser failed, or its answer is not a JSON
\* object that satisfies the schema.
ApiFailed(r) ==
    \/ r.kind = "raise"
    \/ r.body # "json-object"
    \/ r.data.action \notin Action
    \/ r.data.magnitude \notin Magnitude \cup {None, UNSET}
    \/ r.data.confidence < 0
    \/ r.data.confidence > 1000

\* C23: LLMCommandParser.parse never raises: when the request raises, the
\* content is not a JSON object, the action is unknown or the confidence is
\* out of range, it returns STOP with confidence 0.0 and the input text as
\* raw_text; inside FallbackManager that command is below 0.5, so the call
\* goes on to the regex tier and never reports source "llm".
C23_LLMParserNeverRaises ==
    (pc \in {"regex", "validate", "done", "raised"} /\ api # NoApi) =>
        /\ semOut.kind = "return"
        /\ semOut.cmd # ValidationError
        /\ ApiFailed(api) =>
              /\ semOut.cmd = [action |-> STOP, magnitude |-> None, frame |-> "CAMERA",
                               confidence |-> 0, value_mm |-> <<>>, raw_text |-> text]
              /\ pc # "raised"
              /\ pc = "regex" \/ (source \in {"regex", "failed"} /\ trace[2] = "regex")

\* The model answered "left" with the unknown action FLY_AWAY at confidence
\* 0.95: parse gave STOP at 0.0 and the regex tier supplied MOVE_LEFT.
C23_Witness ==
    /\ pc = "done"
    /\ api # NoApi
    /\ api.kind = "content" /\ api.body = "json-object"
    /\ api.data.action = "FLY_AWAY" /\ api.data.confidence = 950
    /\ text = <<"left">>
    /\ semOut.cmd.action = STOP /\ semOut.cmd.confidence = 0
    /\ source = "regex" /\ cmd.action = "MOVE_LEFT"

\* C24: construction is a round trip on its own output: for every command c
\* that was constructed (stop or not, magnitude given, omitted or None,
\* value_mm given or derived), RobotCommand(**c.model_dump()) is accepted and
\* equals c.
C24_RoundTrip ==
    pc = "rebuilt" =>
        /\ cmd # ValidationError
        /\ cmd = built

\* A non-stop command built with magnitude None and no value_mm has been
\* dumped and rebuilt, and the rebuilt command equals it.
C24_Witness ==
    /\ pc = "rebuilt"
    /\ args.action = "MOVE_UP"
    /\ args.magnitude = None
    /\ args.value_mm = <<>>
    /\ built.magnitude = None
    /\ cmd = built

\* Number of invocations of tier in the call under way.
Invocations(tier) == Cardinality({k \in DOMAIN trace : trace[k] = tier})

\* C25: parse_with_fallback is strictly ordered and short-circuiting, with
\* no retry: the semantic parser is invoked first and exactly once; the regex
\* parser is invoked at most once and only after the semantic parser raised
\* or returned confidence below 0.5, never when a semantic result was
\* accepted; the safe-default STOP is synthesized only after the regex
\* parser returned None or raised.
C25_OrderedShortCircuit ==
    pc # "idle" =>
        /\ Len(trace) >= 1 /\ trace[1] = "llm"
        /\ Invocations("llm") = 1
        /\ Invocations("regex") <= 1
        /\ Invocations("default") <= 1
        /\ Invocations("regex") = 1 =>
              (trace[2] = "regex" /\ semOut # NoOutcome /\ SemFailed)
        /\ (Returned /\ ~SemFailed) => (trace = <<"llm">> /\ source = "llm")
        /\ (Returned /\ SemFailed) => Invocations("regex") = 1
        /\ Invocations("default") = 1 =>
              (trace = <<"llm", "regex", "default">> /\ RegexFailed)
        /\ Returned => (source = "failed" <=> Invocations("default") = 1)

\* A call went through all three tiers in order: the semantic parser raised,
\* the regex parser found no cue, the default was synthesized.
C25_Witness ==
    /\ pc = "done"
    /\ semOut.kind = "raise"
    /\ regexKind = "RegexFallbackParser"
    /\ text = <<"going">>
    /\ trace = <<"llm", "regex", "default">>
    /\ source = "failed"

\* C26: with the validation threshold at its default 0.7, when the semantic
\* tier is not used (it raised or returned confidence below 0.5) the only
\* command process_text reports as valid is STOP: a result with source
\* "regex" and a non-stop action has valid = False (0.6 < 0.7), and a STOP
\* result, from source "regex" or "failed", has valid = True and message "ok".
C26_OnlyStopValidWithoutSemantic ==
    (pc = "done" /\ threshold = DEFAULT_CONFIDENCE_THRESHOLD /\ SemFailed) =>
        /\ source \in {"regex", "failed"}
        /\ (source = "regex" /\ cmd.action # STOP) =>
              (valid = FALSE /\ message = "confidence 0.60 < 0.70")
        /\ cmd.action = STOP => (valid = TRUE /\ message = "ok")
        /\ valid = TRUE => cmd.action = STOP

\* The semantic parser raised on "left"; the regex tier gave MOVE_LEFT, which
\* the validator at 0.7 rejected.
C26_Witness ==
    /\ pc = "done"
    /\ threshold = DEFAULT_CONFIDENCE_THRESHOLD
    /\ semOut.kind = "raise"
    /\ text = <<"left">>
    /\ source = "regex"
    /\ cmd.action = "MOVE_LEFT"
    /\ valid = FALSE

\* C27: the provenance tag agrees with the returned command when the regex
\* parser is RegexFallbackParser: source "llm" implies confidence >= 0.5,
\* source "regex" implies confidence = 0.6, source "failed" implies STOP with
\* confidence 0.0; so the confidence is below 0.5 exactly when the source is
\* "failed".
C27_ProvenanceConsistent ==
    (Returned /\ regexKind = "RegexFallbackParser") =>
        /\ source = "llm" => cmd.confidence >= 500
        /\ source = "regex" => cmd.confidence = 600
        /\ source = "failed" => (cmd.action = STOP /\ cmd.confidence = 0)
        /\ cmd.confidence < 500 <=> source = "failed"

\* The semantic parser returned confidence 0.499 for an utterance with no
\* cue; the result is tagged "failed" and carries confidence 0.0.
C27_Witness ==
    /\ Returned
    /\ regexKind = "RegexFallbackParser"
    /\ semOut.kind = "return"
    /\ semOut.cmd.confidence = 499
    /\ text = <<"way">>
    /\ source = "failed"
    /\ cmd.confidence = 0

====
